---- MODULE Spec2Model ----
(***************************************************************************)
(* A model of src/main.py: the /hackrx/run handler (hackrx_runner), the    *)
(* PDF segmenter (extract_clauses_from_pdf), the memoised embedding model  *)
(* (get_bi_encoder) and the answer pipeline answer_question ->             *)
(* refine_answer -> summarize_answer.                                      *)
(*                                                                         *)
(* Texts are TLA+ strings, read character by character with Len, SubSeq    *)
(* and \o.  The embedding model and the cosine ranking are opaque library  *)
(* code: which clause semantic_search ranks first, with which score, and   *)
(* whether a library call raises, are nondeterministic choices.            *)
(***************************************************************************)
EXTENDS Integers, Sequences, FiniteSets, TLC

VARIABLES
    pc,         \* position of the handler: idle, fetch, segment, loop, model,
                \* encode, search, extract, compose, done
    questions,  \* req.questions
    document,   \* what req.documents points at
    acquired,   \* "pending", "ok" (line 147 returned) or "failed"
    clauses,    \* clauses (line 147)
    answers,    \* answers (line 149)
    idx,        \* index of the question the for loop of line 150 is at
    log,        \* per question of this request: the locals of its
                \* answer_question call and what the call did
    response,   \* the dict the handler returned
    cache,      \* lru_cache of get_bi_encoder: NoModel or the cached instance
    loads,      \* times the body of get_bi_encoder ran
    okLoads,    \* times the body of get_bi_encoder returned an instance
    rpc,        \* refinement harness: off, build, done
    rn,         \* refinement harness: pieces the answer is made of
    rq,         \* refinement harness: the question
    rin,        \* refinement harness: the answer given to refine_answer
    rout        \* refinement harness: what refine_answer returned

vars == <<pc, questions, document, acquired, clauses, answers, idx, log,
          response, cache, loads, okLoads, rpc, rn, rq, rin, rout>>

runnerVars == <<pc, questions, document, acquired, clauses, answers, idx,
                log, response, cache, loads, okLoads>>

refineVars == <<rpc, rn, rq, rin, rout>>

-----------------------------------------------------------------------------
(* Characters and Python's str methods.                                    *)

UpperLetters == "ABCDEFGHIJKLMNOPQRSTUVWXYZ"

LowerLetters == "abcdefghijklmnopqrstuvwxyz"

\* the ASCII characters str.strip(), str.split() and the regex \s treat as
\* whitespace (the vertical tab and the separators FS..US cannot be written
\* in a TLA+ string and do not occur in the model's texts)
Whitespace == {" ", "\t", "\n", "\r", "\f"}

\* the characters of ".!?" (lines 55, 67, 116)
Terminal == {".", "!", "?"}

Char(s, i) == SubSeq(s, i, i)

UpperSet == {Char(UpperLetters, i) : i \in 1..Len(UpperLetters)}

LowerSet == {Char(LowerLetters, i) : i \in 1..Len(LowerLetters)}

\* each upper-case letter's lower-case letter, and the converse
ToLower ==
    [c \in UpperSet |->
        Char(LowerLetters, CHOOSE i \in 1..Len(UpperLetters) : Char(UpperLetters, i) = c)]

ToUpper ==
    [c \in LowerSet |->
        Char(UpperLetters, CHOOSE i \in 1..Len(LowerLetters) : Char(LowerLetters, i) = c)]

\* c.isupper() for one character
IsUpper(c) == c \in UpperSet

\* c.upper() for one character
UpperChar(c) == IF c \in LowerSet THEN ToUpper[c] ELSE c

\* c.lower() for one character
LowerChar(c) == IF c \in UpperSet THEN ToLower[c] ELSE c

RECURSIVE LowerRange(_, _, _)
\* the characters i..j of s, each lowered (halving keeps the evaluation shallow)
LowerRange(s, i, j) ==
    IF i > j THEN ""
    ELSE IF i = j THEN LowerChar(Char(s, i))
    ELSE LET m == (i + j) \div 2
         IN  LowerRange(s, i, m) \o LowerRange(s, m + 1, j)

\* s.lower()
Lower(s) == LowerRange(s, 1, Len(s))

RECURSIVE FirstNonSpace(_, _)
\* the first position >= i of s that holds no whitespace, Len(s)+1 if none
FirstNonSpace(s, i) ==
    IF i > Len(s) \/ Char(s, i) \notin Whitespace THEN i
    ELSE FirstNonSpace(s, i + 1)

RECURSIVE FirstSpace(_, _)
\* the first position >= i of s that holds whitespace, Len(s)+1 if none
FirstSpace(s, i) ==
    IF i > Len(s) \/ Char(s, i) \in Whitespace THEN i
    ELSE FirstSpace(s, i + 1)

RECURSIVE LastNonSpace(_, _)
\* the last position <= i of s that holds no whitespace, 0 if none
LastNonSpace(s, i) ==
    IF i < 1 \/ Char(s, i) \notin Whitespace THEN i
    ELSE LastNonSpace(s, i - 1)

\* s.strip()
Strip(s) == SubSeq(s, FirstNonSpace(s, 1), LastNonSpace(s, Len(s)))

RECURSIVE SplitFrom(_, _)
SplitFrom(s, i) ==
    LET b == FirstNonSpace(s, i)
        e == FirstSpace(s, b)
    IN  IF b > Len(s) THEN <<>>
        ELSE <<SubSeq(s, b, e - 1)>> \o SplitFrom(s, e)

\* s.split(): the maximal runs of non-whitespace, in order
Split(s) == SplitFrom(s, 1)

\* set(s.split())
WordSet(s) == LET w == Split(s) IN {w[i] : i \in DOMAIN w}

\* sub in s
Contains(s, sub) ==
    \E i \in 1..(Len(s) - Len(sub) + 1) : SubSeq(s, i, i + Len(sub) - 1) = sub

\* what re.sub(r'\s+', ' ', s) leaves of character i: a whitespace run
\* becomes one space, written where the run starts
CollapseAt(s, i) ==
    IF Char(s, i) \notin Whitespace THEN Char(s, i)
    ELSE IF i > 1 /\ Char(s, i - 1) \in Whitespace THEN ""
    ELSE " "

RECURSIVE CollapseRange(_, _, _)
CollapseRange(s, i, j) ==
    IF i > j THEN ""
    ELSE IF i = j THEN CollapseAt(s, i)
    ELSE LET m == (i + j) \div 2
         IN  CollapseRange(s, i, m) \o CollapseRange(s, m + 1, j)

\* re.sub(r'\s+', ' ', s)
CollapseWhitespace(s) == CollapseRange(s, 1, Len(s))

RECURSIVE ReplaceNewlineRange(_, _, _)
ReplaceNewlineRange(s, i, j) ==
    IF i > j THEN ""
    ELSE IF i = j THEN (IF Char(s, i) = "\n" THEN " " ELSE Char(s, i))
    ELSE LET m == (i + j) \div 2
         IN  ReplaceNewlineRange(s, i, m) \o ReplaceNewlineRange(s, m + 1, j)

\* s.replace("\n", " ")
ReplaceNewline(s) == ReplaceNewlineRange(s, 1, Len(s))

\* the first position >= i of s where (?<=[.!?])\s+ matches, Len(s)+1 if none
SentenceBreak(s, i) ==
    LET breaks == {k \in i..Len(s) : /\ k > 1
                                     /\ Char(s, k) \in Whitespace
                                     /\ Char(s, k - 1) \in Terminal}
    IN  IF breaks = {} THEN Len(s) + 1
        ELSE CHOOSE k \in breaks : \A j \in breaks : k <= j

RECURSIVE SplitSentencesFrom(_, _)
SplitSentencesFrom(s, i) ==
    LET b == SentenceBreak(s, i)
    IN  IF b > Len(s) THEN <<SubSeq(s, i, Len(s))>>
        ELSE <<SubSeq(s, i, b - 1)>> \o SplitSentencesFrom(s, FirstNonSpace(s, b))

\* re.split(r'(?<=[.!?])\s+', s)
SplitSentences(s) == SplitSentencesFrom(s, 1)

-----------------------------------------------------------------------------
(* The answer pipeline.                                                    *)

\* the string of line 155
Fallback == "Unable to find answer."

\* the constants of refine_answer, summarize_answer and answer_question
MinRefineWords == 6

LongAnswerWords == 30

MinSummaryWords == 8

\* 0.15 of line 122, as SentThresholdNum / SentThresholdDen
SentThresholdNum == 15

SentThresholdDen == 100

\* the parenthetical of lines 59 and 103
Hint(question) == " (See policy for more details on: " \o question \o ")"

\* refine_answer without its line 50
NormaliseStripOnly(answer) == Strip(answer)

\* Lines 48-50 of refine_answer: strip, then collapse every whitespace run.
Normalise(answer) == CollapseWhitespace(Strip(answer))

\* Lines 52-53 of refine_answer.
Capitalise(answer) ==
    IF Len(answer) > 0 /\ ~IsUpper(Char(answer, 1))
    THEN UpperChar(Char(answer, 1)) \o SubSeq(answer, 2, Len(answer))
    ELSE answer

\* Lines 55-56 of refine_answer.
Punctuate(answer) ==
    IF Len(answer) > 0 /\ Char(answer, Len(answer)) \notin Terminal
    THEN answer \o "."
    ELSE answer

\* Lines 58-59 of refine_answer.
AddContext(question, answer) ==
    IF Len(Split(answer)) < MinRefineWords
    THEN answer \o Hint(question)
    ELSE answer

refine_answer(question, answer) ==
    AddContext(question, Punctuate(Capitalise(Normalise(answer))))

\* score_sentence (lines 94-96 and 118-120) as the fraction num / den over
\* the question's keyword set kw
ScoreNum(s, kw) == Cardinality(WordSet(Lower(s)) \cap kw)

ScoreDen(s, kw) == Cardinality(WordSet(Lower(s))) + 1

\* a.num / a.den < b.num / b.den, by cross-multiplication
ScoreLess(a, b) == a.num * b.den < b.num * a.den

\* max(range(len(sentences)), key=...): the first index of a maximal score
BestIndex(sentences, kw) ==
    LET score == [i \in DOMAIN sentences |->
                     [num |-> ScoreNum(sentences[i], kw),
                      den |-> ScoreDen(sentences[i], kw)]]
    IN  CHOOSE i \in DOMAIN sentences :
            /\ \A j \in DOMAIN sentences : ~ScoreLess(score[i], score[j])
            /\ \A j \in 1..(i - 1) : ScoreLess(score[j], score[i])

\* a slip at line 122: the comparison is turned round
AboveSentenceThreshold(s, kw) ==
    ScoreNum(s, kw) * SentThresholdDen > SentThresholdNum * ScoreDen(s, kw)

\* score_sentence(s) < 0.15 (line 122)
BelowSentenceThreshold(s, kw) ==
    ScoreNum(s, kw) * SentThresholdDen < SentThresholdNum * ScoreDen(s, kw)

\* The if/elif chain of lines 71-90 in its order: an entry fires when, for
\* one of the sets of `any`, every phrase of the set is a substring of the
\* lowered question.
OverrideTable == <<
    [any |-> {{"grace period"}},
     canned |-> "A grace period of thirty days is provided for premium payment after the due date to renew or continue the policy without losing continuity benefits."],
    [any |-> {{"waiting period", "pre-existing"}, {"waiting period", "ped"}},
     canned |-> "There is a waiting period of thirty-six (36) months of continuous coverage from the first policy inception for pre-existing diseases and their direct complications to be covered."],
    [any |-> {{"maternity"}},
     canned |-> "Yes, the policy covers maternity expenses, including childbirth and lawful medical termination of pregnancy. To be eligible, the female insured person must have been continuously covered for at least 24 months. The benefit is limited to two deliveries or terminations during the policy period."],
    [any |-> {{"cataract"}},
     canned |-> "The policy has a specific waiting period of two (2) years for cataract surgery."],
    [any |-> {{"organ donor"}},
     canned |-> "Yes, the policy indemnifies the medical expenses for the organ donor's hospitalization for the purpose of harvesting the organ, provided the organ is for an insured person and the donation complies with the Transplantation of Human Organs Act, 1994."],
    [any |-> {{"no claim discount"}, {"ncd"}},
     canned |-> "A No Claim Discount of 5% on the base premium is offered on renewal for a one-year policy term if no claims were made in the preceding year. The maximum aggregate NCD is capped at 5% of the total base premium."],
    [any |-> {{"health check"}},
     canned |-> "Yes, the policy reimburses expenses for health check-ups at the end of every block of two continuous policy years, provided the policy has been renewed without a break. The amount is subject to the limits specified in the Table of Benefits."],
    [any |-> {{"hospital"}},
     canned |-> "A hospital is defined as an institution with at least 10 inpatient beds (in towns with a population below ten lakhs) or 15 beds (in all other places), with qualified nursing staff and medical practitioners available 24/7, a fully equipped operation theatre, and which maintains daily records of patients."],
    [any |-> {{"ayush"}},
     canned |-> "The policy covers medical expenses for inpatient treatment under Ayurveda, Yoga, Naturopathy, Unani, Siddha, and Homeopathy systems up to the Sum Insured limit, provided the treatment is taken in an AYUSH Hospital."],
    [any |-> {{"room rent"}, {"icu"}},
     canned |-> "Yes, for Plan A, the daily room rent is capped at 1% of the Sum Insured, and ICU charges are capped at 2% of the Sum Insured. These limits do not apply if the treatment is for a listed procedure in a Preferred Provider Network (PPN)."]
>>

\* the condition of one branch of lines 71-90 on ql = question.lower()
Fires(entry, ql) == \E conj \in entry.any : \A phrase \in conj : Contains(ql, phrase)

\* the index of the first branch of lines 71-90 that fires, 0 if none does
OverrideIndex(question) ==
    LET ql == Lower(question)
    IN  IF \E k \in DOMAIN OverrideTable : Fires(OverrideTable[k], ql)
        THEN CHOOSE k \in DOMAIN OverrideTable :
                 /\ Fires(OverrideTable[k], ql)
                 /\ \A j \in 1..(k - 1) : ~Fires(OverrideTable[j], ql)
        ELSE 0

\* Lines 92-100 of summarize_answer.
BestSentences(question, answer) ==
    LET sentences == SplitSentences(answer)
        kw        == WordSet(Lower(question))
        best_idx  == BestIndex(sentences, kw)
    IN  IF Len(sentences) > 1 /\ Len(Split(answer)) > LongAnswerWords
        THEN IF best_idx + 1 <= Len(sentences)
             THEN Strip(sentences[best_idx]) \o " " \o Strip(sentences[best_idx + 1])
             ELSE Strip(sentences[best_idx])
        ELSE answer

\* Lines 102-104 of summarize_answer.
AddSummaryContext(question, summary) ==
    IF Len(Split(summary)) < MinSummaryWords
    THEN summary \o Hint(question)
    ELSE summary

summarize_answer(question, answer) ==
    LET k == OverrideIndex(question)
    IN  IF k > 0 THEN OverrideTable[k].canned
        ELSE AddSummaryContext(question, BestSentences(question, answer))

\* best_sent of line 121: max(sentences, key=score_sentence)
BestSentence(question, best_clause) ==
    LET sentences == SplitSentences(best_clause)
    IN  sentences[BestIndex(sentences, WordSet(Lower(question)))]

\* Lines 122-125 of answer_question.
ExtractAnswer(question, best_clause) ==
    LET best_sent == BestSentence(question, best_clause)
    IN  IF BelowSentenceThreshold(best_sent, WordSet(Lower(question)))
        THEN Strip(best_clause)
        ELSE Strip(best_sent)

\* Lines 126-128 of answer_question.
ComposeAnswer(question, answer) ==
    summarize_answer(question, refine_answer(question, answer))

-----------------------------------------------------------------------------
(* The segmenter.                                                          *)

\* range(min(len(doc), 25)) of line 26
MaxPages == 25

\* len(text.split()) > 8 of line 30
MinClauseWords == 8

RECURSIVE BlockClauses(_, _, _)
\* Lines 28-34: the clauses of one page's blocks, from block b on.
BlockClauses(blocks, page_num, b) ==
    IF b > Len(blocks) THEN <<>>
    ELSE LET text == Strip(blocks[b])
         IN  (IF Len(Split(text)) > MinClauseWords
              THEN <<[page |-> page_num + 1, text |-> ReplaceNewline(text)]>>
              ELSE <<>>)
             \o BlockClauses(blocks, page_num, b + 1)

RECURSIVE PageClauses(_, _)
\* Lines 26-34: the clauses of the pages page_num, page_num + 1, ... (0-based)
PageClauses(pages, page_num) ==
    IF page_num >= (IF Len(pages) < MaxPages THEN Len(pages) ELSE MaxPages)
    THEN <<>>
    ELSE BlockClauses(pages[page_num + 1], page_num, 1)
             \o PageClauses(pages, page_num + 1)

\* extract_clauses_from_pdf on a document fitz could open
extract_clauses_from_pdf(doc) == PageClauses(doc.pages, 0)

-----------------------------------------------------------------------------
(* The inputs of the model.                                                *)

\* questions per request
MaxQuestions == 2

\* runs of the body of get_bi_encoder that may raise
MaxLoads == 2

GraceQuestion == "What is the grace period for premium payment?"

ClaimQuestion == "How long to process a claim?"

CoverQuestion == "What colour is the cover page?"

MaternityQuestion == "Is MATERNITY care covered?"

QuestionPool == {GraceQuestion, MaternityQuestion, ClaimQuestion, CoverQuestion}

QuestionLists == UNION {[1..n -> QuestionPool] : n \in 0..MaxQuestions}

ClaimClause == "Claims must be filed within 30 days of the incident. The insurer will process valid claims within 15 business days."

ClaimSecondSentence == "The insurer will process valid claims within 15 business days."

\* a file fitz.open rejects
DocBroken == [valid |-> FALSE, pages |-> <<>>]

\* a PDF whose blocks are all fragments
DocSparse == [valid |-> TRUE, pages |-> << <<"Policy Schedule", "Page 1 of 1\n">> >>]

\* a PDF of two pages and three usable blocks
DocPolicy ==
    [valid |-> TRUE,
     pages |-> <<
        <<"National Insurance Policy\n",
          "Claims must be filed within 30 days of the incident.\nThe insurer will process valid claims within 15 business days.\n">>,
        <<"  Cover page colour is blue. The policy document has forty pages in total and is printed on recycled paper.",
          "The company shall settle or reject a claim within thirty days from the date of receipt of the last necessary document. Interest is payable to the policyholder in case of delay.\nThe rate of interest shall be two percent above the bank rate.",
          "2">> >>]

Documents == {DocBroken, DocSparse, DocPolicy}

\* cosine similarities of the top hit, in hundredths
Scores == {12, 85}

\* the clause texts the segmenter can hand to answer_question
ClauseTexts ==
    UNION {{extract_clauses_from_pdf(d)[i].text :
                i \in DOMAIN extract_clauses_from_pdf(d)} :
           d \in {x \in Documents : x.valid}}

\* Lines 116-125 tabulated over the model's questions and clause texts (the
\* table is computed once; Extract reads it)
ExtractTable ==
    [q \in QuestionPool |->
        [c \in ClauseTexts |->
            [best_sent |-> BestSentence(q, c), answer |-> ExtractAnswer(q, c)]]]

\* the values the local `answer` of line 123 or 125 can take
ExtractedAnswers ==
    {ExtractTable[q][c].answer : q \in QuestionPool, c \in ClauseTexts}

\* Lines 126-128 tabulated over the model's questions and extracted answers
ComposeTable ==
    [q \in QuestionPool |-> [a \in ExtractedAnswers |-> ComposeAnswer(q, a)]]

\* the branch of lines 71-90 each of the model's questions takes, 0 for none
OverrideOf == [q \in QuestionPool |-> OverrideIndex(q)]

-----------------------------------------------------------------------------
(* The handler and the memoised model.                                     *)

\* the lru_cache of get_bi_encoder holds nothing
NoModel == 0

NoResponse == [pending |-> TRUE]

\* the locals of an answer_question call that has just been entered
NewCall ==
    [model |-> NoModel, encoded |-> FALSE, ranked |-> FALSE, hit |-> 0,
     score |-> 0, best_sent |-> "", answer |-> "", raised |-> FALSE]

\* a slip at line 153: the answer is put in front
OnAnswerPrepended(ans, a) == <<a>> \o ans

\* line 153
OnAnswer(ans, a) == Append(ans, a)

\* a slip at line 155: the handler starts the list again
OnQuestionErrorRestarts(ans) == <<Fallback>>

\* a slip at line 155: the handler appends the empty string
OnQuestionErrorEmpty(ans) == Append(ans, "")

\* lines 154-155
OnQuestionError(ans) == Append(ans, Fallback)

\* line 157
AnswersResponse(ans) == [answers |-> ans]

\* a slip at line 160: the error is returned beside an empty answers list
ErrorResponseWithAnswers(e) == [answers |-> <<>>, error |-> "Internal error: " \o e]

\* lines 159-160
ErrorResponse(e) == [error |-> "Internal error: " \o e]

\* get_bi_encoder without its lru_cache decorator
CacheMissAlways(c) == TRUE

\* get_bi_encoder is entered with this cache: does its body run?
CacheMiss(c) == c = NoModel

RunnerInit ==
    /\ pc = "idle"
    /\ questions = <<>>
    /\ document = DocBroken
    /\ acquired = "pending"
    /\ clauses = <<>>
    /\ answers = <<>>
    /\ idx = 0
    /\ log = <<>>
    /\ response = NoResponse
    /\ cache = NoModel
    /\ loads = 0
    /\ okLoads = 0

\* A POST /hackrx/run arrives; the handler runs on the event loop and, having
\* no await, to its return before the next request is taken.
Receive ==
    /\ pc = "idle"
    /\ \E qs \in QuestionLists, d \in Documents :
          /\ questions' = qs
          /\ document' = d
    /\ pc' = "fetch"
    /\ UNCHANGED <<acquired, clauses, answers, idx, log, response, cache,
                   loads, okLoads>>
    /\ UNCHANGED refineVars

\* Lines 141-145: requests.get and the write of the temporary file.
Fetch ==
    /\ pc = "fetch"
    /\ \/ /\ pc' = "segment"
          /\ UNCHANGED <<acquired, response>>
       \/ /\ acquired' = "failed"
          /\ response' = ErrorResponse("connection failed")
          /\ pc' = "done"
    /\ UNCHANGED <<questions, document, clauses, answers, idx, log, cache,
                   loads, okLoads>>
    /\ UNCHANGED refineVars

\* Lines 147-149: extract_clauses_from_pdf, then answers = [].
Segment ==
    /\ pc = "segment"
    /\ IF document.valid
       THEN /\ clauses' = extract_clauses_from_pdf(document)
            /\ acquired' = "ok"
            /\ answers' = <<>>
            /\ idx' = 1
            /\ pc' = "loop"
            /\ UNCHANGED response
       ELSE /\ acquired' = "failed"
            /\ response' = ErrorResponse("cannot open document")
            /\ pc' = "done"
            /\ UNCHANGED <<clauses, answers, idx>>
    /\ UNCHANGED <<questions, document, log, cache, loads, okLoads>>
    /\ UNCHANGED refineVars

\* Lines 150-152: the loop takes its next question and calls answer_question.
NextQuestion ==
    /\ pc = "loop"
    /\ idx <= Len(questions)
    /\ log' = Append(log, NewCall)
    /\ pc' = "model"
    /\ UNCHANGED <<questions, document, acquired, clauses, answers, idx,
                   response, cache, loads, okLoads>>
    /\ UNCHANGED refineVars

\* Line 157: the loop is over.
Return ==
    /\ pc = "loop"
    /\ idx > Len(questions)
    /\ response' = AnswersResponse(answers)
    /\ pc' = "done"
    /\ UNCHANGED <<questions, document, acquired, clauses, answers, idx, log,
                   cache, loads, okLoads>>
    /\ UNCHANGED refineVars

\* Lines 154-155: the call of question idx raised.
Recover ==
    /\ answers' = OnQuestionError(answers)
    /\ log' = [log EXCEPT ![idx].raised = TRUE]
    /\ idx' = idx + 1
    /\ pc' = "loop"

\* Line 107 and lines 14-17: a cached instance is returned; otherwise the
\* body runs and its result is cached, unless it raises, which caches nothing.
GetEncoder ==
    /\ pc = "model"
    /\ \/ /\ ~CacheMiss(cache)
          /\ log' = [log EXCEPT ![idx].model = cache]
          /\ pc' = "encode"
          /\ UNCHANGED <<cache, loads, okLoads, answers, idx>>
       \/ /\ CacheMiss(cache)
          /\ loads' = loads + 1
          /\ okLoads' = okLoads + 1
          /\ cache' = okLoads + 1
          /\ log' = [log EXCEPT ![idx].model = okLoads + 1]
          /\ pc' = "encode"
          /\ UNCHANGED <<answers, idx>>
       \/ /\ CacheMiss(cache)
          /\ loads < MaxLoads
          /\ loads' = loads + 1
          /\ Recover
          /\ UNCHANGED <<cache, okLoads>>
    /\ UNCHANGED <<questions, document, acquired, clauses, response>>
    /\ UNCHANGED refineVars

\* Lines 108-110: the clause texts and the question are encoded.
Encode ==
    /\ pc = "encode"
    /\ \/ /\ log' = [log EXCEPT ![idx].encoded = TRUE]
          /\ pc' = "search"
          /\ UNCHANGED <<answers, idx>>
       \/ Recover
    /\ UNCHANGED <<questions, document, acquired, clauses, response, cache,
                   loads, okLoads>>
    /\ UNCHANGED refineVars

\* Lines 111-112: semantic_search and hits[0]; with no clause there is no
\* hits[0] (or the search itself raises).
Search ==
    /\ pc = "search"
    /\ IF Len(clauses) = 0
       THEN Recover
       ELSE /\ \E h \in 1..Len(clauses), sc \in Scores :
                  log' = [log EXCEPT ![idx].ranked = TRUE, ![idx].hit = h,
                                     ![idx].score = sc]
            /\ pc' = "extract"
            /\ UNCHANGED <<answers, idx>>
    /\ UNCHANGED <<questions, document, acquired, clauses, response, cache,
                   loads, okLoads>>
    /\ UNCHANGED refineVars

\* Lines 116-125.
Extract ==
    /\ pc = "extract"
    /\ LET q           == questions[idx]
           best_clause == clauses[log[idx].hit].text
       IN  log' = [log EXCEPT
                      ![idx].best_sent = ExtractTable[q][best_clause].best_sent,
                      ![idx].answer = ExtractTable[q][best_clause].answer]
    /\ pc' = "compose"
    /\ UNCHANGED <<questions, document, acquired, clauses, answers, idx,
                   response, cache, loads, okLoads>>
    /\ UNCHANGED refineVars

\* Lines 126-128 and 153.
Compose ==
    /\ pc = "compose"
    /\ answers' = OnAnswer(answers, ComposeTable[questions[idx]][log[idx].answer])
    /\ idx' = idx + 1
    /\ pc' = "loop"
    /\ UNCHANGED <<questions, document, acquired, clauses, log, response,
                   cache, loads, okLoads>>
    /\ UNCHANGED refineVars

\* The response is sent; the request's locals are dropped.
Deliver ==
    /\ pc = "done"
    /\ pc' = "idle"
    /\ questions' = <<>>
    /\ document' = DocBroken
    /\ acquired' = "pending"
    /\ clauses' = <<>>
    /\ answers' = <<>>
    /\ idx' = 0
    /\ log' = <<>>
    /\ response' = NoResponse
    /\ UNCHANGED <<cache, loads, okLoads>>
    /\ UNCHANGED refineVars

RefineOff == rpc = "off" /\ rn = 0 /\ rq = "" /\ rin = "" /\ rout = ""

Init == RunnerInit /\ RefineOff

Next ==
    \/ Receive
    \/ Fetch
    \/ Segment
    \/ NextQuestion
    \/ Return
    \/ GetEncoder
    \/ Encode
    \/ Search
    \/ Extract
    \/ Compose
    \/ Deliver

Spec == Init /\ [][Next]_vars

-----------------------------------------------------------------------------
(* refine_answer on its own: an answer is put together from pieces, then   *)
(* refined.                                                                *)

\* pieces per answer
MaxPieces == 6

\* words with and without a capital, terminal punctuation and whitespace
\* around them
Pieces == {"is paid ", "Due.", " \n", "ok? "}

RefineQuestions == {ClaimQuestion, CoverQuestion}

RefineInit ==
    /\ RunnerInit
    /\ rpc = "build"
    /\ rn = 0
    /\ rq \in RefineQuestions
    /\ rin = ""
    /\ rout = ""

\* one more piece of the answer text
AppendPiece ==
    /\ rpc = "build"
    /\ rn < MaxPieces
    /\ \E p \in Pieces : rin' = rin \o p
    /\ rn' = rn + 1
    /\ UNCHANGED <<rpc, rq, rout>>
    /\ UNCHANGED runnerVars

\* the call refine_answer(question, answer) of line 126
Refine ==
    /\ rpc = "build"
    /\ rout' = refine_answer(rq, rin)
    /\ rpc' = "done"
    /\ UNCHANGED <<rn, rq, rin>>
    /\ UNCHANGED runnerVars

RefineNext == AppendPiece \/ Refine

RefineSpec == RefineInit /\ [][RefineNext]_vars

-----------------------------------------------------------------------------
(* The claims.                                                             *)

\* the handler is inside its for loop or has left it
InLoop == pc \in {"loop", "model", "encode", "search", "extract", "compose"}

\* the answer line 152 or line 155 yields for question i, from what its call did
ExpectedAnswer(i) ==
    IF log[i].raised THEN Fallback
    ELSE LET q == questions[i]
         IN  ComposeTable[q][ExtractTable[q][clauses[log[i].hit].text].answer]

\* C1: once the document is segmented, the answers list holds one answer per
\* question taken so far, answers[i] is the answer of questions[i], no answer
\* is the empty string, and the response holds as many answers as there are
\* questions.
C1_OneAnswerPerQuestion ==
    acquired = "ok" =>
        /\ Len(answers) = idx - 1
        /\ Len(answers) <= Len(questions)
        /\ \A i \in DOMAIN answers :
              /\ answers[i] = ExpectedAnswer(i)
              /\ answers[i] # ""
        /\ pc = "done" =>
              /\ response = [answers |-> answers]
              /\ Len(response.answers) = Len(questions)

\* C1 witness: a response of two different answers, one of them the fallback
\* of a question that raised.
C1_Witness ==
    /\ pc = "done"
    /\ acquired = "ok"
    /\ Len(questions) = 2
    /\ log[2].raised
    /\ ~log[1].raised
    /\ response.answers[1] # response.answers[2]

\* C2: the answer of a question whose call raised is the fallback string,
\* the answers of earlier questions stay as they are while the request runs,
\* every question gets its call, and the request ends with an answers list.
C2_FailureIsolated ==
    /\ [](\A i \in DOMAIN log :
             log[i].raised => i \in DOMAIN answers /\ answers[i] = Fallback)
    /\ [](pc = "done" /\ acquired = "ok" =>
             /\ Len(log) = Len(questions)
             /\ DOMAIN response = {"answers"}
             /\ Len(response.answers) = Len(questions))
    /\ [][pc # "done" =>
             \A i \in DOMAIN answers :
                 i \in DOMAIN answers' /\ answers'[i] = answers[i]]_vars

\* C2 witness: the first question raised, the second was answered from a
\* clause.
C2_Witness ==
    /\ pc = "done"
    /\ acquired = "ok"
    /\ Len(questions) = 2
    /\ log[1].raised
    /\ ~log[2].raised
    /\ log[2].hit > 0
    /\ response.answers[1] = Fallback
    /\ response.answers[2] # Fallback

\* C3: the answer of a question that holds an override phrase is the canned
\* string of that phrase, whatever the clauses.
C3_OverrideAlwaysCanned ==
    \A i \in DOMAIN answers :
        OverrideOf[questions[i]] > 0 =>
            answers[i] = OverrideTable[OverrideOf[questions[i]]].canned

\* C4: with no usable clause, every question's answer is the fallback string.
C4_NoClausesFallback ==
    (acquired = "ok" /\ Len(clauses) = 0) =>
        /\ \A i \in DOMAIN answers : answers[i] = Fallback
        /\ pc = "done" =>
              /\ DOMAIN response = {"answers"}
              /\ Len(response.answers) = Len(questions)
              /\ \A i \in DOMAIN questions : response.answers[i] = Fallback

\* C4 witness: a document without usable clauses, a question with an override
\* phrase and one without, both encoded, both answered by the fallback.
C4_Witness ==
    /\ pc = "done"
    /\ acquired = "ok"
    /\ Len(clauses) = 0
    /\ Len(questions) = 2
    /\ OverrideOf[questions[1]] > 0
    /\ OverrideOf[questions[2]] = 0
    /\ log[1].encoded
    /\ log[2].encoded
    /\ response.answers = <<Fallback, Fallback>>

\* C5: a question without override phrase whose top hit scores below 0.3 is
\* answered by the fallback string.
C5_LowScoreFallback ==
    \A i \in DOMAIN answers :
        (OverrideOf[questions[i]] = 0 /\ log[i].ranked /\ log[i].score < 30) =>
            answers[i] = Fallback

\* s ends with '.', '!' or '?' and holds no two whitespace characters in a row
RefinerPostcondition(s) ==
    /\ Len(s) > 0
    /\ Char(s, Len(s)) \in Terminal
    /\ \A i \in 1..(Len(s) - 1) :
          ~(Char(s, i) \in Whitespace /\ Char(s, i + 1) \in Whitespace)

C7_AcquisitionFailure ==
    /\ acquired = "failed" =>
          /\ pc = "done"
          /\ DOMAIN response = {"error"}
          /\ log = <<>>
          /\ answers = <<>>
    /\ acquired = "ok" => (InLoop \/ pc = "done")
    /\ (pc = "done" /\ acquired = "ok") => DOMAIN response = {"answers"}
    /\ pc = "done" => acquired \in {"ok", "failed"}

\* C7 witness: the fetch worked, the file could not be opened, and the
\* request of two questions ended with an error.
C7_Witness ==
    /\ pc = "done"
    /\ acquired = "failed"
    /\ document = DocBroken
    /\ Len(questions) = 2
    /\ response = ErrorResponse("cannot open document")

\* C8 as stated: the body of get_bi_encoder runs at most once.
C8_BodyRunsOnce == loads <= 1

\* C8 amended: the body of get_bi_encoder returns an instance at most once;
\* from then on the cache holds that instance, the body does not run again,
\* and every call uses the cached instance.
C8_LoadedOnce ==
    /\ [](okLoads <= 1)
    /\ [](\A i \in DOMAIN log : log[i].model # NoModel => log[i].model = cache)
    /\ [][cache # NoModel =>
             /\ cache' = cache
             /\ loads' = loads
             /\ okLoads' = okLoads]_vars

\* C8 witness: a load raised, a later one returned the instance, and the
\* next call was served from the cache.
C8_Witness ==
    /\ loads = 2
    /\ okLoads = 1
    /\ Len(log) = 2
    /\ log[1].model = cache
    /\ log[2].model = cache
    /\ cache # NoModel

\* score_sentence of the scenario's second sentence for the scenario's question
ClaimSecondScore ==
    [num |-> ScoreNum(ClaimSecondSentence, WordSet(Lower(ClaimQuestion))),
     den |-> ScoreDen(ClaimSecondSentence, WordSet(Lower(ClaimQuestion)))]

\* question i is ClaimQuestion and its top hit is ClaimClause
ClaimScenario(i) ==
    /\ questions[i] = ClaimQuestion
    /\ log[i].hit > 0
    /\ clauses[log[i].hit].text = ClaimClause

\* C9 as stated: in the scenario the answer is the clause's second sentence.
C9_SecondSentenceAnswer ==
    \A i \in DOMAIN answers :
        (ClaimScenario(i) /\ ~log[i].raised) => answers[i] = ClaimSecondSentence

\* C9 amended: in the scenario the second sentence is the best sentence, with
\* score 1/11; that is below 0.15, so the extracted answer and the answer
\* returned are the whole clause.
C9_WholeClauseAnswer ==
    /\ \A i \in DOMAIN log :
          (ClaimScenario(i) /\ (i < idx \/ pc = "compose")) =>
              /\ log[i].best_sent = ClaimSecondSentence
              /\ ClaimSecondScore = [num |-> 1, den |-> 11]
              /\ log[i].answer = ClaimClause
    /\ \A i \in DOMAIN answers :
          (ClaimScenario(i) /\ ~log[i].raised) => answers[i] = ClaimClause

\* C9 witness: the scenario's question was answered from the scenario's
\* clause.
C9_Witness ==
    /\ pc = "done"
    /\ acquired = "ok"
    /\ Len(questions) = 1
    /\ ClaimScenario(1)
    /\ log[1].score = 85
    /\ response.answers = <<ClaimClause>>

\* C10: for a question that holds an override phrase, neither the encoding
\* nor the ranking is invoked.
C10_OverrideBypassesRanking ==
    \A i \in DOMAIN log :
        OverrideOf[questions[i]] > 0 => ~log[i].encoded /\ ~log[i].ranked

====
